---- MODULE Spec2Model ----
(***************************************************************************)
(* muxter: the radix-trie path router.                                     *)
(*                                                                         *)
(* Strings are sequences of one-byte strings.  Pointers to trie nodes are  *)
(* indices into the heap `nodes` (0 is nil).  Go slice indices are         *)
(* 0-based; IndexByte / IndexAny below keep Go's values (-1 = not found).  *)
(***************************************************************************)
EXTENDS Integers, Sequences, FiniteSets, TLC

VARIABLES nodes, muxes, registered, handleCalls, lastErr, pc, req, resp,
          inflight, paramPool

vars == <<nodes, muxes, registered, handleCalls, lastErr, pc, req, resp,
          inflight, paramPool>>

----------------------------------------------------------------------------
(* Bounds of the model *)

\* number of Handle calls made on the routers
MaxHandles == 3
\* longest request path
MaxPathLen == 5
\* how many patterns of AllPatterns the routers may register
PoolSize == 13

MaxDepth == 1

MaxRegPathLen == 3

\* the number of distinct middlewares, the longest list of middlewares given
\* to one call, and the most middlewares that a router gets from Use
MaxMiddlewares == 3

MaxMwArgs == 2

MaxUsed == 2

\* the calls of Handle on a router that has middlewares
MaxMwHandles == 2

\* the requests in flight at the same time and the parameter lists that
\* pool.Params makes
MaxInflight == 2

MaxLists == 2

\* the handlers that the application has for SetNotFoundHandler, and the most
\* middlewares from Use in the specification that sets the not-found handler
MaxCustom == 2

MaxUsedNF == 1

\* the longest input of stripDepth and the largest depth
MaxStripLen == 4

MaxStripDepth == 3

----------------------------------------------------------------------------
(* strings *)

Min(a, b) == IF a < b THEN a ELSE b

\* s[i:] with Go's 0-based i
From(s, i) == SubSeq(s, i + 1, Len(s))

\* s[:i] with Go's 0-based i
Upto(s, i) == SubSeq(s, 1, i)

HasPrefix(s, p) == Len(p) <= Len(s) /\ SubSeq(s, 1, Len(p)) = p

HasSuffix(s, p) == Len(p) <= Len(s) /\ SubSeq(s, Len(s) - Len(p) + 1, Len(s)) = p

TrimPrefix(s, p) == IF HasPrefix(s, p) THEN From(s, Len(p)) ELSE s

\* strings.IndexAny: 0-based index of the first byte of s in the set cs, or -1
IndexAny(s, cs) ==
    IF \E i \in 1..Len(s) : s[i] \in cs
    THEN (CHOOSE i \in 1..Len(s) : s[i] \in cs /\ \A j \in 1..(i - 1) : s[j] \notin cs) - 1
    ELSE -1

IndexByte(s, c) == IndexAny(s, {c})

\* commonPrefixLength that finds no common prefix
commonPrefixLength_none(a, b) == 0

commonPrefixLength(a, b) ==
    LET m == Min(Len(a), Len(b))
        differ == {i \in 1..m : a[i] # b[i]}
    IN IF differ = {} THEN m
       ELSE (CHOOSE i \in differ : \A j \in differ : i <= j) - 1

----------------------------------------------------------------------------
(* handlers, values, nodes *)

static == 0
wildcard == 1
catchall == 2

NilHandler == [kind |-> "nil", id |-> 0, depth |-> 0, mux |-> 0, mws |-> <<>>]

\* a handler supplied by the application, told apart by id
Leaf(i) == [kind |-> "leaf", id |-> i, depth |-> 0, mux |-> 0, mws |-> <<>>]

defaultNotFoundHandler ==
    [kind |-> "notfound", id |-> 0, depth |-> 0, mux |-> 0, mws |-> <<>>]

defaultRedirectHandler ==
    [kind |-> "redirect", id |-> 0, depth |-> 0, mux |-> 0, mws |-> <<>>]

\* a *Mux used as a Handler
MuxHandler(m) == [kind |-> "mux", id |-> 0, depth |-> 0, mux |-> m, mws |-> <<>>]

NilValue == [isNil |-> TRUE, handler |-> NilHandler, pattern |-> <<>>]

MkValue(h, p) == [isNil |-> FALSE, handler |-> h, pattern |-> p]

redirectValue == MkValue(defaultRedirectHandler, <<>>)

\* &node{...}: the fields a composite literal does not name are zero
MkNode(key, value, children, indices, type) ==
    [Key |-> key, Value |-> value, Children |-> children, Indices |-> indices,
     Wildcard |-> 0, Catchall |-> 0, Type |-> type]

\* IsSubdirNode that takes no node for a subtree node
IsSubdirNode_never(nd) == FALSE

IsSubdirNode(nd) == ~nd.Value.isNil /\ HasSuffix(nd.Key, <<"/">>)

----------------------------------------------------------------------------
(* node.insert / node.Insert.  Both mutate the heap in place, so a call    *)
(* that fails returns the heap as it had been changed up to the failure.   *)

errMultipleRegistrations == "multiple registrations"

errMismatched == "mismatched wild cards"

errAfterCatchall == "cannot register segments after a catchall expression"

\* a run-time panic of the Go program (index or slice bounds out of range)
errPanic == "panic"

Ret(h, n, err) == [nodes |-> h, n |-> n, err |-> err]

RECURSIVE insert(_, _, _, _)
RECURSIVE insertChildren(_, _, _, _, _)

\* the `for i, childNode := range n.Children` loop of insert, from child i on,
\* and the append that follows it
insertChildren(h, n, key, value, i) ==
    IF i > Len(h[n].Children)
    THEN LET id == Len(h) + 1
             h1 == [h EXCEPT ![n].Children = Append(@, id),
                             ![n].Indices = Append(@, key[1])]
         IN Ret(Append(h1, MkNode(key, value, <<>>, <<>>, static)), id, "")
    ELSE LET c == h[n].Children[i]
             ck == h[c].Key
             cp == commonPrefixLength(ck, key)
         IN IF key = ck
            THEN IF ~value.isNil
                 THEN IF ~h[c].Value.isNil
                      THEN Ret(h, 0, errMultipleRegistrations)
                      ELSE Ret([h EXCEPT ![c].Value = value], c, "")
                 ELSE Ret(h, c, "")
            ELSE IF cp = 0
            THEN insertChildren(h, n, key, value, i + 1)
            ELSE IF cp = Len(ck)
            THEN insert(h, c, From(key, cp), value)
            ELSE LET h1 == [h EXCEPT ![c].Key = From(ck, cp)]
                     id == Len(h) + 1
                 IN IF cp = Len(key)
                    THEN Ret(Append([h1 EXCEPT ![n].Children[i] = id],
                                    MkNode(key, value, <<c>>, <<h1[c].Key[1]>>, static)),
                             id, "")
                    ELSE LET target == MkNode(From(key, cp), value, <<>>, <<>>, static)
                             branch == MkNode(Upto(key, cp), NilValue, <<c, id>>,
                                              <<h1[c].Key[1], target.Key[1]>>, static)
                         IN Ret(Append(Append([h1 EXCEPT ![n].Children[i] = id + 1],
                                              target), branch),
                                id, "")

\* insert whose wildcard case stores the new value over the one already there
insert_overwrite(h, n, key, value) ==
    IF key = <<>>
    THEN Ret(h, 0, errPanic)
    ELSE IF key[1] = ":"
    THEN LET w == h[n].Wildcard
         IN IF w # 0
            THEN IF h[w].Key # From(key, 1)
                 THEN Ret(h, 0, errMismatched)
                 ELSE IF ~value.isNil
                 THEN Ret([h EXCEPT ![w].Value = value], w, "")
                 ELSE Ret(h, w, "")
            ELSE LET id == Len(h) + 1
                 IN Ret(Append([h EXCEPT ![n].Wildcard = id],
                               MkNode(From(key, 1), value, <<>>, <<>>, wildcard)),
                        id, "")
    ELSE IF key[1] = "*"
    THEN LET ca == h[n].Catchall
         IN IF ca # 0
            THEN IF h[ca].Key # From(key, 1)
                 THEN Ret(h, 0, errMismatched)
                 ELSE Ret(h, 0, errMultipleRegistrations)
            ELSE LET id == Len(h) + 1
                 IN Ret(Append([h EXCEPT ![n].Catchall = id],
                               MkNode(From(key, 1), value, <<>>, <<>>, catchall)),
                        id, "")
    ELSE insertChildren(h, n, key, value, 1)

\* insert that renames the wildcard or catch-all child already there instead
\* of failing when the names differ
insert_rename(h, n, key, value) ==
    IF key = <<>>
    THEN Ret(h, 0, errPanic)
    ELSE IF key[1] = ":"
    THEN LET w == h[n].Wildcard
         IN IF w # 0
            THEN IF h[w].Key # From(key, 1)
                 THEN Ret([h EXCEPT ![w].Key = From(key, 1)], w, "")
                 ELSE IF ~value.isNil
                 THEN IF ~h[w].Value.isNil
                      THEN Ret(h, 0, errMultipleRegistrations)
                      ELSE Ret([h EXCEPT ![w].Value = value], w, "")
                 ELSE Ret(h, w, "")
            ELSE LET id == Len(h) + 1
                 IN Ret(Append([h EXCEPT ![n].Wildcard = id],
                               MkNode(From(key, 1), value, <<>>, <<>>, wildcard)),
                        id, "")
    ELSE IF key[1] = "*"
    THEN LET ca == h[n].Catchall
         IN IF ca # 0
            THEN IF h[ca].Key # From(key, 1)
                 THEN Ret([h EXCEPT ![ca].Key = From(key, 1)], ca, "")
                 ELSE Ret(h, 0, errMultipleRegistrations)
            ELSE LET id == Len(h) + 1
                 IN Ret(Append([h EXCEPT ![n].Catchall = id],
                               MkNode(From(key, 1), value, <<>>, <<>>, catchall)),
                        id, "")
    ELSE insertChildren(h, n, key, value, 1)

insert(h, n, key, value) ==
    IF key = <<>>
    THEN Ret(h, 0, errPanic)
    ELSE IF key[1] = ":"
    THEN LET w == h[n].Wildcard
         IN IF w # 0
            THEN IF h[w].Key # From(key, 1)
                 THEN Ret(h, 0, errMismatched)
                 ELSE IF ~value.isNil
                 THEN IF ~h[w].Value.isNil
                      THEN Ret(h, 0, errMultipleRegistrations)
                      ELSE Ret([h EXCEPT ![w].Value = value], w, "")
                 ELSE Ret(h, w, "")
            ELSE LET id == Len(h) + 1
                 IN Ret(Append([h EXCEPT ![n].Wildcard = id],
                               MkNode(From(key, 1), value, <<>>, <<>>, wildcard)),
                        id, "")
    ELSE IF key[1] = "*"
    THEN LET ca == h[n].Catchall
         IN IF ca # 0
            THEN IF h[ca].Key # From(key, 1)
                 THEN Ret(h, 0, errMismatched)
                 ELSE Ret(h, 0, errMultipleRegistrations)
            ELSE LET id == Len(h) + 1
                 IN Ret(Append([h EXCEPT ![n].Catchall = id],
                               MkNode(From(key, 1), value, <<>>, <<>>, catchall)),
                        id, "")
    ELSE insertChildren(h, n, key, value, 1)

RECURSIVE Insert(_, _, _, _)

\* Insert without the test for a catch-all that is followed by a '/'
Insert_noTerminalTest(h, n, key, value) ==
    LET idx == IndexAny(key, {":", "*"})
    IN IF idx = -1
       THEN insert(h, n, key, value)
       ELSE LET r1 == insert(h, n, Upto(key, idx), NilValue)
                post == From(key, idx)
                slashIdx == IndexByte(post, "/")
            IN IF r1.err # ""
               THEN r1
               ELSE IF slashIdx = -1
               THEN insert(r1.nodes, r1.n, post, value)
               ELSE LET r2 == insert(r1.nodes, r1.n, Upto(post, slashIdx), NilValue)
                    IN IF r2.err # ""
                       THEN r2
                       ELSE Insert(r2.nodes, r2.n, From(post, slashIdx), value)

Insert(h, n, key, value) ==
    LET idx == IndexAny(key, {":", "*"})
    IN IF idx = -1
       THEN insert(h, n, key, value)
       ELSE LET r1 == insert(h, n, Upto(key, idx), NilValue)
                post == From(key, idx)
                slashIdx == IndexByte(post, "/")
            IN IF r1.err # ""
               THEN r1
               ELSE IF slashIdx = -1
               THEN insert(r1.nodes, r1.n, post, value)
               ELSE IF post[1] = "*"
               THEN Ret(r1.nodes, 0, errAfterCatchall)
               ELSE LET r2 == insert(r1.nodes, r1.n, Upto(post, slashIdx), NilValue)
                    IN IF r2.err # ""
                       THEN r2
                       ELSE Insert(r2.nodes, r2.n, From(post, slashIdx), value)

----------------------------------------------------------------------------
(* node.Lookup *)

Param(k, v) == [Key |-> k, Value |-> v]

\* the wildcard case's append that binds the whole path instead of the
\* segment before the '/' at idx
BindSegment_whole(params, key, path, idx) == Append(params, Param(key, path))

\* the wildcard case's append when the path has a '/' at Go index idx:
\* the name is bound to path[:idx]
BindSegment(params, key, path, idx) == Append(params, Param(key, Upto(path, idx)))

Out(result, params, fallback, fault) ==
    [result |-> result, params |-> params, fallback |-> fallback, fault |-> fault]

RECURSIVE Walk(_, _, _, _, _, _, _)
RECURSIVE Descend(_, _, _, _, _, _)

\* Descend with the child selection reordered: the catch-all and the wildcard
\* child are tried before the static children
Descend_dynamicFirst(h, n, path, params, fallback, mts) ==
    LET nd == h[n]
        fb == IF mts /\ path = <<"/">> /\ ~nd.Value.isNil THEN nd.Value ELSE fallback
        wildcardbackup == nd.Wildcard
        hits == IF path = <<>> THEN {}
                ELSE {i \in 1..Len(nd.Indices) : nd.Indices[i] = path[1]}
    IN IF path = <<>>
       THEN Out(NilValue, params, fb, TRUE)
       ELSE IF nd.Catchall # 0
       THEN Walk(h, nd.Catchall, path, params, fb, wildcardbackup, mts)
       ELSE IF nd.Wildcard # 0
       THEN Walk(h, nd.Wildcard, path, params, fb, wildcardbackup, mts)
       ELSE IF hits # {}
       THEN Walk(h, nd.Children[CHOOSE i \in hits : \A j \in hits : i <= j],
                 path, params, fb, wildcardbackup, mts)
       ELSE Out(NilValue, params, fb, FALSE)

\* Descend that compares the path's first byte with the first index byte only
Descend_firstChild(h, n, path, params, fallback, mts) ==
    LET nd == h[n]
        fb == IF mts /\ path = <<"/">> /\ ~nd.Value.isNil THEN nd.Value ELSE fallback
        wildcardbackup == nd.Wildcard
        hits == IF path = <<>> THEN {}
                ELSE {i \in 1..Min(1, Len(nd.Indices)) : nd.Indices[i] = path[1]}
    IN IF path = <<>>
       THEN Out(NilValue, params, fb, TRUE)
       ELSE IF hits # {}
       THEN Walk(h, nd.Children[CHOOSE i \in hits : \A j \in hits : i <= j],
                 path, params, fb, wildcardbackup, mts)
       ELSE IF nd.Catchall # 0
       THEN Walk(h, nd.Catchall, path, params, fb, wildcardbackup, mts)
       ELSE IF nd.Wildcard # 0
       THEN Walk(h, nd.Wildcard, path, params, fb, wildcardbackup, mts)
       ELSE Out(NilValue, params, fb, FALSE)

\* the part of the Walk loop after the switch on n.Type
Descend(h, n, path, params, fallback, mts) ==
    LET nd == h[n]
        fb == IF mts /\ path = <<"/">> /\ ~nd.Value.isNil THEN nd.Value ELSE fallback
        wildcardbackup == nd.Wildcard
        hits == IF path = <<>> THEN {}
                ELSE {i \in 1..Len(nd.Indices) : nd.Indices[i] = path[1]}
    IN IF path = <<>>
       THEN Out(NilValue, params, fb, TRUE)
       ELSE IF hits # {}
       THEN Walk(h, nd.Children[CHOOSE i \in hits : \A j \in hits : i <= j],
                 path, params, fb, wildcardbackup, mts)
       ELSE IF nd.Catchall # 0
       THEN Walk(h, nd.Catchall, path, params, fb, wildcardbackup, mts)
       ELSE IF nd.Wildcard # 0
       THEN Walk(h, nd.Wildcard, path, params, fb, wildcardbackup, mts)
       ELSE Out(NilValue, params, fb, FALSE)

\* Walk that goes on to the children when the static node has consumed the
\* whole path
Walk_noEmptyTest(h, n, path, params, fallback, wildcardbackup, mts) ==
    LET nd == h[n]
    IN IF nd.Type = static
       THEN IF ~HasPrefix(path, nd.Key)
            THEN IF wildcardbackup # 0
                 THEN Walk(h, wildcardbackup, path, params, fallback, wildcardbackup, mts)
                 ELSE IF ~nd.Value.isNil /\ path \o <<"/">> = nd.Key
                 THEN Out(redirectValue, params, fallback, FALSE)
                 ELSE Out(NilValue, params, fallback, FALSE)
            ELSE LET rest == TrimPrefix(path, nd.Key)
                 IN IF rest = <<>> /\ ~nd.Value.isNil
                    THEN Out(nd.Value, params, fallback, FALSE)
                    ELSE Descend(h, n, rest, params,
                                 IF IsSubdirNode(nd) THEN nd.Value ELSE fallback, mts)
       ELSE IF nd.Type = wildcard
       THEN LET idx == IndexByte(path, "/")
            IN IF idx = -1
               THEN Out(nd.Value, Append(params, Param(nd.Key, path)), fallback, FALSE)
               ELSE Descend(h, n, From(path, idx),
                            BindSegment(params, nd.Key, path, idx), fallback, mts)
       ELSE Out(nd.Value, Append(params, Param(nd.Key, path)), fallback, FALSE)

\* Walk that keeps the first subtree value it meets as the fallback instead of
\* the last
Walk_firstFallback(h, n, path, params, fallback, wildcardbackup, mts) ==
    LET nd == h[n]
    IN IF nd.Type = static
       THEN IF ~HasPrefix(path, nd.Key)
            THEN IF wildcardbackup # 0
                 THEN Walk(h, wildcardbackup, path, params, fallback, wildcardbackup, mts)
                 ELSE IF ~nd.Value.isNil /\ path \o <<"/">> = nd.Key
                 THEN Out(redirectValue, params, fallback, FALSE)
                 ELSE Out(NilValue, params, fallback, FALSE)
            ELSE LET rest == TrimPrefix(path, nd.Key)
                 IN IF rest = <<>>
                    THEN Out(nd.Value, params, fallback, FALSE)
                    ELSE Descend(h, n, rest, params,
                                 IF IsSubdirNode(nd) /\ fallback.isNil
                                 THEN nd.Value ELSE fallback, mts)
       ELSE IF nd.Type = wildcard
       THEN LET idx == IndexByte(path, "/")
            IN IF idx = -1
               THEN Out(nd.Value, Append(params, Param(nd.Key, path)), fallback, FALSE)
               ELSE Descend(h, n, From(path, idx),
                            BindSegment(params, nd.Key, path, idx), fallback, mts)
       ELSE Out(nd.Value, Append(params, Param(nd.Key, path)), fallback, FALSE)

\* Walk that backtracks: when nothing is found below a static node it has
\* consumed, it goes back to the wildcard sibling of that node
Walk_backtrack(h, n, path, params, fallback, wildcardbackup, mts) ==
    LET nd == h[n]
    IN IF nd.Type = static
       THEN IF ~HasPrefix(path, nd.Key)
            THEN IF wildcardbackup # 0
                 THEN Walk(h, wildcardbackup, path, params, fallback, wildcardbackup, mts)
                 ELSE IF ~nd.Value.isNil /\ path \o <<"/">> = nd.Key
                 THEN Out(redirectValue, params, fallback, FALSE)
                 ELSE Out(NilValue, params, fallback, FALSE)
            ELSE LET rest == TrimPrefix(path, nd.Key)
                     below == Descend(h, n, rest, params,
                                      IF IsSubdirNode(nd) THEN nd.Value ELSE fallback, mts)
                 IN IF rest = <<>>
                    THEN Out(nd.Value, params, fallback, FALSE)
                    ELSE IF below.result.isNil /\ below.fallback.isNil /\ wildcardbackup # 0
                    THEN Walk(h, wildcardbackup, path, params, fallback, 0, mts)
                    ELSE below
       ELSE IF nd.Type = wildcard
       THEN LET idx == IndexByte(path, "/")
            IN IF idx = -1
               THEN Out(nd.Value, Append(params, Param(nd.Key, path)), fallback, FALSE)
               ELSE Descend(h, n, From(path, idx),
                            BindSegment(params, nd.Key, path, idx), fallback, mts)
       ELSE Out(nd.Value, Append(params, Param(nd.Key, path)), fallback, FALSE)

\* one turn of the Walk loop at node n
Walk(h, n, path, params, fallback, wildcardbackup, mts) ==
    LET nd == h[n]
    IN IF nd.Type = static
       THEN IF ~HasPrefix(path, nd.Key)
            THEN IF wildcardbackup # 0
                 THEN Walk(h, wildcardbackup, path, params, fallback, wildcardbackup, mts)
                 ELSE IF ~nd.Value.isNil /\ path \o <<"/">> = nd.Key
                 THEN Out(redirectValue, params, fallback, FALSE)
                 ELSE Out(NilValue, params, fallback, FALSE)
            ELSE LET rest == TrimPrefix(path, nd.Key)
                 IN IF rest = <<>>
                    THEN Out(nd.Value, params, fallback, FALSE)
                    ELSE Descend(h, n, rest, params,
                                 IF IsSubdirNode(nd) THEN nd.Value ELSE fallback, mts)
       ELSE IF nd.Type = wildcard
       THEN LET idx == IndexByte(path, "/")
            IN IF idx = -1
               THEN Out(nd.Value, Append(params, Param(nd.Key, path)), fallback, FALSE)
               ELSE Descend(h, n, From(path, idx),
                            BindSegment(params, nd.Key, path, idx), fallback, mts)
       ELSE Out(nd.Value, Append(params, Param(nd.Key, path)), fallback, FALSE)

\* Lookup without its deferred function: the fallback is dropped
Lookup_noDefer(h, n, path, params, matchTrailingSlash) ==
    LET o == Walk(h, n, path, params, NilValue, 0, matchTrailingSlash)
    IN [value |-> o.result, params |-> o.params, fault |-> o.fault]

\* Lookup whose deferred function prefers the fallback to the result
Lookup_fallbackFirst(h, n, path, params, matchTrailingSlash) ==
    LET o == Walk(h, n, path, params, NilValue, 0, matchTrailingSlash)
    IN [value |-> IF o.fallback.isNil THEN o.result ELSE o.fallback,
        params |-> o.params,
        fault |-> o.fault]

\* Lookup with its deferred function: a nil result becomes the fallback.
\* `value` is the result, `params` the list the walk appended to, `fault`
\* tells that the walk panicked.
Lookup(h, n, path, params, matchTrailingSlash) ==
    LET o == Walk(h, n, path, params, NilValue, 0, matchTrailingSlash)
    IN [value |-> IF o.result.isNil THEN o.fallback ELSE o.result,
        params |-> o.params,
        fault |-> o.fault]

----------------------------------------------------------------------------
(* StripDepth *)

\* the number of '/' bytes of value at Go indices 1..i
SlashesUpto(value, i) == Cardinality({j \in 1..i : value[j + 1] = "/"})

\* the two bytes of a rune that UTF-8 encodes in two bytes (U+00E9); every
\* other byte of the model is ASCII
leadByte == "xC3"

contByte == "xA9"

\* the width of the rune that `range` decodes at Go index i of value: an
\* ill-formed sequence is one byte wide
RuneWidth(value, i) ==
    IF value[i + 1] = leadByte /\ i + 2 <= Len(value) /\ value[i + 2] = contByte
    THEN 2 ELSE 1

RECURSIVE RuneStartsFrom(_, _)

RuneStartsFrom(value, i) ==
    IF i >= Len(value) THEN {}
    ELSE {i} \cup RuneStartsFrom(value, i + RuneWidth(value, i))

\* the Go indices that `for i = range value` assigns to i
RuneStarts(value) == RuneStartsFrom(value, 0)

\* the loop leaves in i the first rune start at which `seen` has reached
\* depth, or the last rune start; i stays 0 when value is empty
stripDepth(value, depth) ==
    IF depth = 0 THEN value
    ELSE IF value = <<>> THEN value
    ELSE LET starts == RuneStarts(value)
             stops == {i \in starts : SlashesUpto(value, i) = depth}
             i == IF stops = {} THEN CHOOSE k \in starts : \A j \in starts : j <= k
                  ELSE CHOOSE k \in stops : \A j \in stops : k <= j
         IN IF i = Len(value) - 1 THEN <<"/">> ELSE From(value, i)

\* StripDepth(depth, mux): the wrapper around a *Mux
StripDepth(depth, m) ==
    [kind |-> "strip", id |-> 0, depth |-> depth, mux |-> m, mws |-> <<>>]

----------------------------------------------------------------------------
(* Mux *)

\* New(MatchTrailingSlash(mts)) with its root at node `root`
NewMux(root, mts) ==
    [root |-> root, notFoundHandler |-> defaultNotFoundHandler, middlewares |-> <<>>,
     matchTrailingSlash |-> mts]

RECURSIVE Reverse(_)

Reverse(seq) == IF seq = <<>> THEN <<>> ELSE Append(Reverse(Tail(seq)), Head(seq))

\* WithMiddleware that wraps from the first middleware outwards, so that the
\* last one is called first
WithMiddleware_reversed(handler, middlewares) ==
    IF handler.kind = "nil" THEN handler
    ELSE [handler EXCEPT !.mws = Reverse(middlewares) \o @]

\* WithMiddleware(handler, middlewares...): the loop wraps from the last
\* middleware to the first, so the first one is the outermost; mws lists the
\* middlewares around a handler from the outermost to the innermost
WithMiddleware(handler, middlewares) ==
    IF handler.kind = "nil" THEN handler
    ELSE [handler EXCEPT !.mws = middlewares \o @]

Context(og, pattern, params) == [ogReqPath |-> og, pattern |-> pattern, params |-> params]

NoResp ==
    [kind |-> "none", status |-> 0, location |-> <<>>, handler |-> 0,
     pattern |-> <<>>, params |-> <<>>, path |-> <<>>, trace |-> <<>>, header |-> 0,
     reqPath |-> <<>>, body |-> "", calls |-> <<>>]

\* what a call has done once the selected handler returned: which handler ran
\* (kind, handler), what it wrote (status, location), what it was given (the
\* Context's pattern and params, the request's URL path), which middlewares
\* the call went through (trace, in the order of their calls) and the value
\* that the response header they all set has in the end (header, 0 when unset);
\* reqPath is the URL path that the request object of the caller has when the
\* call returns (no handler of the model but StripDepth touches a request);
\* body is what was written to the response body; calls lists, outermost
\* first, the handlers that the routers have called, each with its router
Resp(kind, status, location, handler, c, path) ==
    [kind |-> kind, status |-> status, location |-> location, handler |-> handler,
     pattern |-> c.pattern, params |-> c.params, path |-> path,
     trace |-> <<>>, header |-> 0, reqPath |-> path, body |-> "", calls |-> <<>>]

Panic(c, path) == Resp("panic", 0, <<>>, 0, c, path)

\* StripDepth's wrapper whose r2 keeps the URL pointer that it copied from r
StripRequests_sharedURL(path, depth) ==
    LET urls0 == <<[Path |-> path]>>
        reqs0 == <<[URL |-> 1]>>
        reqs1 == Append(reqs0, reqs0[1])
        urls1 == [urls0 EXCEPT ![reqs1[2].URL] = urls0[reqs1[1].URL]]
        urls2 == [urls1 EXCEPT ![reqs1[2].URL].Path =
                                   stripDepth(urls1[reqs1[1].URL].Path, depth)]
    IN [r |-> urls2[reqs1[1].URL].Path, r2 |-> urls2[reqs1[2].URL].Path]

\* the request objects of one call of StripDepth's wrapper: request 1 is the
\* caller's r with its URL 1, request 2 is r2 from pool.Requests and URL 2 the
\* one from pool.URL. The result is the path of each when the inner handler
\* is called; nothing is written to them afterwards.
StripRequests(path, depth) ==
    LET urls0 == <<[Path |-> path]>>
        reqs0 == <<[URL |-> 1]>>
        \* r2 := pool.Requests.Get(); *r2 = *r
        reqs1 == Append(reqs0, reqs0[1])
        \* r2.URL = pool.URL.Get()
        urls1 == Append(urls0, [Path |-> <<>>])
        reqs2 == [reqs1 EXCEPT ![2].URL = 2]
        \* *r2.URL = *r.URL
        urls2 == [urls1 EXCEPT ![reqs2[2].URL] = urls1[reqs2[1].URL]]
        \* r2.URL.Path = stripDepth(r.URL.Path, depth)
        urls3 == [urls2 EXCEPT ![reqs2[2].URL].Path =
                                   stripDepth(urls2[reqs2[1].URL].Path, depth)]
    IN [r |-> urls3[reqs2[1].URL].Path, r2 |-> urls3[reqs2[2].URL].Path]

\* http.StatusText(http.StatusNotFound) and the newline of http.Error
NotFoundBody == "Not Found\n"

\* a handler of the application that is made to answer 404 itself
CustomNotFound(i) == [kind |-> "custom", id |-> i, depth |-> 0, mux |-> 0, mws |-> <<>>]

RECURSIVE ServeHTTPx(_, _, _, _, _)
RECURSIVE Invoke(_, _, _, _, _)

\* handler.ServeHTTPx(w, r, c) for each kind of Handler. A middleware k, as
\* those of the tests, sets the response header to k and calls the handler
\* it wraps, which may set the header again.
Invoke(h, ms, handler, path, c) ==
    IF handler.mws # <<>>
    THEN LET r == Invoke(h, ms, [handler EXCEPT !.mws = Tail(@)], path, c)
         IN [r EXCEPT !.trace = <<Head(handler.mws)>> \o @,
                      !.header = IF @ = 0 THEN Head(handler.mws) ELSE @]
    ELSE IF handler.kind = "leaf"
    THEN Resp("handler", 200, <<>>, handler.id, c, path)
    ELSE IF handler.kind = "redirect"
    THEN Resp("redirect", 301, c.ogReqPath \o <<"/">>, 0, c, path)
    ELSE IF handler.kind = "notfound"
    THEN [Resp("notfound", 404, <<>>, 0, c, path) EXCEPT !.body = NotFoundBody]
    ELSE IF handler.kind = "custom"
    THEN [Resp("custom", 404, <<>>, handler.id, c, path) EXCEPT !.body = "you are lost buddy!"]
    ELSE IF handler.kind = "strip"
    THEN LET rs == StripRequests(path, handler.depth)
             a == ServeHTTPx(h, ms, handler.mux, rs.r2, c)
         IN [a EXCEPT !.reqPath = rs.r]
    ELSE IF handler.kind = "mux"
    THEN ServeHTTPx(h, ms, handler.mux, path, c)
    ELSE Panic(c, path)

\* router m calls handler.ServeHTTPx(w, r, c): the call is put in front of
\* the calls that were made inside it
Call(h, ms, m, handler, path, c) ==
    [Invoke(h, ms, handler, path, c) EXCEPT !.calls = <<[mux |-> m, handler |-> handler]>> \o @]

\* ServeHTTPx that calls the default handler whatever notFoundHandler is
ServeHTTPx_alwaysDefault(h, ms, m, path, c) ==
    LET l == Lookup(h, ms[m].root, path, c.params, ms[m].matchTrailingSlash)
        c1 == [c EXCEPT !.params = l.params]
    IN IF l.fault
       THEN Panic(c1, path)
       ELSE IF ~l.value.isNil
       THEN IF c1.pattern # <<>>
            THEN IF l.value.pattern = <<>>
                 THEN Panic(c1, path)
                 ELSE Call(h, ms, m, l.value.handler, path,
                           [c1 EXCEPT !.pattern = @ \o From(l.value.pattern, 1)])
            ELSE Call(h, ms, m, l.value.handler, path,
                      [c1 EXCEPT !.pattern = l.value.pattern])
       ELSE Call(h, ms, m, defaultNotFoundHandler, path, c1)

ServeHTTPx(h, ms, m, path, c) ==
    LET l == Lookup(h, ms[m].root, path, c.params, ms[m].matchTrailingSlash)
        c1 == [c EXCEPT !.params = l.params]
    IN IF l.fault
       THEN Panic(c1, path)
       ELSE IF ~l.value.isNil
       THEN IF c1.pattern # <<>>
            THEN IF l.value.pattern = <<>>
                 THEN Panic(c1, path)
                 ELSE Call(h, ms, m, l.value.handler, path,
                           [c1 EXCEPT !.pattern = @ \o From(l.value.pattern, 1)])
            ELSE Call(h, ms, m, l.value.handler, path,
                      [c1 EXCEPT !.pattern = l.value.pattern])
       ELSE IF ms[m].notFoundHandler.kind # "nil"
       THEN Call(h, ms, m, ms[m].notFoundHandler, path, c1)
       ELSE Call(h, ms, m, defaultNotFoundHandler, path, c1)

----------------------------------------------------------------------------
(* the patterns the routers register and the paths they are asked for *)

AllPatterns ==
    << <<"/">>,
       <<"/", "a">>,
       <<"/", "a", "/">>,
       <<"/", "a", "b">>,
       <<"/", ":", "w">>,
       <<"/", ":", "w", "/">>,
       <<"/", ":", "w", "/", "a">>,
       <<"/", "*", "c">>,
       <<"/", "a", "/", "b">>,
       <<"/", "a", "/", ":", "w">>,
       <<"/", ":", "w", "/", ":", "v">>,
       <<"/", ":", "v">>,
       <<"/", "*", "c", "/", "a">>,
       <<"/", "a", "/", "*", "c">>,
       <<"/", "b">>,
       <<"/", "a", "/", "b", "/">>,
       <<"/", "*", "d">> >>

Patterns == {AllPatterns[i] : i \in 1..Min(PoolSize, Len(AllPatterns))}

PathChars == {"/", "a", "b"}

Strings == UNION {[1..k -> PathChars] : k \in 0..MaxPathLen}

\* request paths: the empty path, one-byte paths and every path that begins with '/'
Paths == {p \in Strings : Len(p) <= 1 \/ p[1] = "/"}

----------------------------------------------------------------------------
(* the state machine *)

\* the goroutines that net/http runs ServeHTTP on, one per request in flight
Goroutines == 1..MaxInflight

\* a goroutine that serves no request. Of one that does: pc is the statement
\* it is at, og the path of the request, path and mux the path and the
\* router that ServeHTTPx was last called with, c the Context (params is a
\* pointer: the index of a list of paramPool.lists, 0 is nil), handler the handler
\* selected, out what the handler wrote and was given, gets and puts the
\* calls of pool.Params.Get and Put made for the request
Idle ==
    [pc |-> "idle", og |-> <<>>, path |-> <<>>, mux |-> 0,
     c |-> [ogReqPath |-> <<>>, pattern |-> <<>>, params |-> 0],
     handler |-> NilHandler, out |-> NoResp, gets |-> 0, puts |-> 0]

\* pool.Params: no list has been made yet. free holds the lists that Put has
\* given back, lists the contents of every list made (its first len bytes)
pool_Params == [free |-> {}, lists |-> <<>>]

errEmptyPattern == "muxter: cannot register empty route pattern"

errNoLeadingSlash == "muxter: route pattern must begin with a forward-slash"

errNilHandler == "muxter: handler cannot be nil"

Root == 1

Init ==
    /\ nodes = <<MkNode(<<>>, NilValue, <<>>, <<>>, static)>>
    /\ \E mts \in BOOLEAN : muxes = <<NewMux(1, mts)>>
    /\ registered = <<>>
    /\ handleCalls = 0
    /\ lastErr = ""
    /\ pc = "idle"
    /\ req = <<>>
    /\ resp = NoResp
    /\ inflight = [i \in Goroutines |-> Idle]
    /\ paramPool = pool_Params

\* Use that also wraps the handlers that the router already has
Use_retroactive(m, middlewares) ==
    /\ pc = "idle"
    /\ muxes' = [muxes EXCEPT ![m].middlewares = @ \o middlewares]
    /\ nodes' = [i \in DOMAIN nodes |->
                    [nodes[i] EXCEPT !.Value.handler = WithMiddleware(@, middlewares)]]
    /\ UNCHANGED <<registered, handleCalls, lastErr, pc, req, resp, inflight, paramPool>>

\* m.SetNotFoundHandler(handler)
SetNotFoundHandler(m, handler) ==
    /\ pc = "idle"
    /\ muxes' = [muxes EXCEPT ![m].notFoundHandler = WithMiddleware(handler, muxes[m].middlewares)]
    /\ UNCHANGED <<nodes, registered, handleCalls, lastErr, pc, req, resp,
                   inflight, paramPool>>

\* m.Use(middlewares...)
Use(m, middlewares) ==
    /\ pc = "idle"
    /\ muxes' = [muxes EXCEPT ![m].middlewares = @ \o middlewares]
    /\ UNCHANGED <<nodes, registered, handleCalls, lastErr, pc, req, resp,
                   inflight, paramPool>>

\* m.Handle(pattern, handler, middlewares...): a panic of Handle is kept in
\* lastErr. `registered` keeps, for each call that succeeded, its arguments
\* and the router's middlewares at the time of the call (use).
Handle(m, pattern, handler, middlewares) ==
    /\ pc = "idle"
    /\ \A i \in DOMAIN inflight : inflight[i].pc = "idle"
    /\ handleCalls < MaxHandles
    /\ handleCalls' = handleCalls + 1
    /\ IF pattern = <<>>
       THEN /\ lastErr' = errEmptyPattern
            /\ UNCHANGED <<nodes, registered>>
       ELSE IF pattern[1] # "/"
       THEN /\ lastErr' = errNoLeadingSlash
            /\ UNCHANGED <<nodes, registered>>
       ELSE IF handler.kind = "nil"
       THEN /\ lastErr' = errNilHandler
            /\ UNCHANGED <<nodes, registered>>
       ELSE LET wrapped == WithMiddleware(handler, muxes[m].middlewares \o middlewares)
                r == Insert(nodes, muxes[m].root, pattern, MkValue(wrapped, pattern))
            IN /\ nodes' = r.nodes
               /\ lastErr' = r.err
               /\ registered' =
                      IF r.err = ""
                      THEN Append(registered,
                                  [mux |-> m, pattern |-> pattern, handler |-> handler,
                                   use |-> muxes[m].middlewares, mws |-> middlewares])
                      ELSE registered
    /\ UNCHANGED <<muxes, pc, req, resp, inflight, paramPool>>

\* the application registers its next handler at one of the patterns
HandleLeaf == \E p \in Patterns : Handle(Root, p, Leaf(handleCalls + 1), <<>>)

\* m.ServeHTTP(w, r) with r.URL.Path = path, up to the return of the handler
ServeHTTP(m, path) ==
    /\ pc = "idle"
    /\ req' = path
    /\ resp' = ServeHTTPx(nodes, muxes, m, path, Context(path, <<>>, <<>>))
    /\ pc' = "served"
    /\ UNCHANGED <<nodes, muxes, registered, handleCalls, lastErr, inflight, paramPool>>

Request == \E path \in Paths : ServeHTTP(Root, path)

\* the caller has read the response; the next call gets a fresh recorder
Recycle ==
    /\ pc = "served"
    /\ pc' = "idle"
    /\ req' = <<>>
    /\ resp' = NoResp
    /\ UNCHANGED <<nodes, muxes, registered, handleCalls, lastErr, inflight, paramPool>>

Next == HandleLeaf \/ Request \/ Recycle

Spec == Init /\ [][Next]_vars

----------------------------------------------------------------------------
(* a router nested under a pattern of another one, behind StripDepth *)

Child == 2

\* the patterns the parent mounts the child at, and the child's own patterns
MountPatterns == {<<"/", "a", "/">>, <<"/", ":", "w", "/">>}

ChildPatterns == {<<"/">>, <<"/", "b">>, <<"/", "b", "/">>, <<"/", ":", "v">>}

\* root := New(...); child := New(...)
InitNested ==
    /\ nodes = <<MkNode(<<>>, NilValue, <<>>, <<>>, static),
                 MkNode(<<>>, NilValue, <<>>, <<>>, static)>>
    /\ \E mts \in BOOLEAN : muxes = <<NewMux(1, mts), NewMux(2, mts)>>
    /\ registered = <<>>
    /\ handleCalls = 0
    /\ lastErr = ""
    /\ pc = "idle"
    /\ req = <<>>
    /\ resp = NoResp
    /\ inflight = [i \in Goroutines |-> Idle]
    /\ paramPool = pool_Params

\* child.Handle(p, handler)
HandleChild == \E p \in ChildPatterns : Handle(Child, p, Leaf(handleCalls + 1), <<>>)

\* root.Handle(p, StripDepth(depth, child))
Mount ==
    \E p \in MountPatterns, depth \in 0..MaxDepth :
        Handle(Root, p, StripDepth(depth, Child), <<>>)

NextNested == HandleChild \/ Mount \/ Request \/ Recycle

SpecNested == InitNested /\ [][NextNested]_vars

----------------------------------------------------------------------------
(* a router whose application also tries patterns that cannot be registered *)

RegPatterns ==
    { <<"/">>,
      <<"/", "a">>,
      <<"/", ":", "w">>,
      <<"/", ":", "v">>,
      <<"/", ":", "w", "/", "a">>,
      <<"/", "*", "c">>,
      <<"/", "*", "d">>,
      <<"/", "a", "/", "*", "c">>,
      <<"/", "*", "c", "/", "a">>,
      <<"/", "*", "d", "/", "a">>,
      <<"/", ":", "v", "/", "*", "c", "/">> }

RegPaths == {p \in Paths : Len(p) <= MaxRegPathLen}

HandleReg == \E p \in RegPatterns : Handle(Root, p, Leaf(handleCalls + 1), <<>>)

RequestReg == \E path \in RegPaths : ServeHTTP(Root, path)

NextReg == HandleReg \/ RequestReg \/ Recycle

SpecReg == Init /\ [][NextReg]_vars

----------------------------------------------------------------------------
(* A router whose application tries patterns that fail after a part of     *)
(* them has been inserted: a name that differs, or a segment after a       *)
(* catch-all, behind a static prefix that the trie does not have yet.      *)

FailPatterns ==
    { <<"/", ":", "w">>,
      <<"/", ":", "w", "/">>,
      <<"/", "b", "/", ":", "w">>,
      <<"/", "b", "/", ":", "v", "/", "a">>,
      <<"/", "a", "/", "*", "c", "/", "b">> }

HandleFail == \E p \in FailPatterns : Handle(Root, p, Leaf(handleCalls + 1), <<>>)

NextFail == HandleFail \/ RequestReg \/ Recycle

SpecFail == Init /\ [][NextFail]_vars

----------------------------------------------------------------------------
(* The accessors of Context, called by the handlers of a router whose       *)
(* patterns bind a name once or twice, and by a handler whose request has  *)
(* no Context.                                                              *)

\* the params field of a Context: a nil pointer, or a pointer to a list
NilParams == [isNil |-> TRUE, list |-> <<>>]

ParamsAt(list) == [isNil |-> FALSE, list |-> list]

\* c.Param(key): the value of the first Param of the list with that key; the
\* range over *c.params faults when c.params is nil
ContextParam(params, key) ==
    IF params.isNil
    THEN [fault |-> TRUE, value |-> <<>>]
    ELSE LET hits == {k \in 1..Len(params.list) : params.list[k].Key = key}
         IN [fault |-> FALSE,
             value |-> IF hits = {} THEN <<>>
                       ELSE params.list[CHOOSE k \in hits : \A j \in hits : k <= j].Value]

\* c.Params(): the map that the loop over the list fills, a later Param of
\* the same key taking the place of an earlier one
ContextParams(params) ==
    IF params.isNil
    THEN <<>>
    ELSE LET keys == {params.list[k].Key : k \in 1..Len(params.list)}
         IN [key \in keys |->
                LET hits == {k \in 1..Len(params.list) : params.list[k].Key = key}
                IN params.list[CHOOSE k \in hits : \A j \in hits : j <= k].Value]

\* paramMap[key] of a Go map: the zero value when the key is absent
MapGet(map, key) == IF key \in DOMAIN map THEN map[key] ELSE <<>>

ParamPatterns ==
    { <<"/", "a">>,
      <<"/", ":", "w">>,
      <<"/", ":", "w", "/", ":", "w">>,
      <<"/", ":", "w", "/", ":", "v">>,
      <<"/", ":", "v", "/", "a">> }

ParamKeys == { <<"w">>, <<"v">>, <<"a">> }

HandleParam == \E p \in ParamPatterns : Handle(Root, p, Leaf(handleCalls + 1), <<>>)

\* Param(r, key) on a request whose context holds no Context: c is the zero
\* Context. The key is kept in req and the result in resp.
ParamOfRequest ==
    \E key \in ParamKeys :
        LET got == ContextParam(NilParams, key)
        IN /\ pc = "idle"
           /\ req' = key
           /\ resp' = IF got.fault THEN [NoResp EXCEPT !.kind = "param panic"]
                      ELSE [NoResp EXCEPT !.kind = "param", !.path = got.value]
           /\ pc' = "served"
           /\ UNCHANGED <<nodes, muxes, registered, handleCalls, lastErr, inflight, paramPool>>

NextParam == HandleParam \/ Request \/ ParamOfRequest \/ Recycle

SpecParam == Init /\ [][NextParam]_vars

----------------------------------------------------------------------------
(* A router with middlewares: calls of Use and of Handle with call-site    *)
(* middlewares in any order, and requests.                                 *)

MwPatterns == { <<"/">>, <<"/", "a">>, <<"/", ":", "w">> }

\* the middlewares of the application: middleware k sets the response header
\* to k and calls the next handler
Middlewares == 1..MaxMiddlewares

\* the lists of distinct middlewares of at most MaxMwArgs elements
MwLists ==
    {<<>>} \cup {<<a>> : a \in Middlewares}
           \cup {l \in {<<a, b>> : a \in Middlewares, b \in Middlewares} :
                      MaxMwArgs >= 2 /\ l[1] # l[2]}

UseMw ==
    \E mws \in MwLists :
        /\ mws # <<>>
        /\ Len(muxes[Root].middlewares) + Len(mws) <= MaxUsed
        /\ Use(Root, mws)

HandleMw ==
    \E p \in MwPatterns, mws \in MwLists :
        /\ handleCalls < MaxMwHandles
        /\ Handle(Root, p, Leaf(handleCalls + 1), mws)

MwPaths == { <<"/">>, <<"/", "a">>, <<"/", "b">>, <<"/", "a", "/">> }

RequestMw == \E path \in MwPaths : ServeHTTP(Root, path)

NextMw == UseMw \/ HandleMw \/ RequestMw \/ Recycle

SpecMw == Init /\ [][NextMw]_vars

----------------------------------------------------------------------------
(* A router whose application sets the not-found handler, before or after  *)
(* calls of Use and Handle.                                                 *)

NotFoundHandlers == {NilHandler} \cup {CustomNotFound(i) : i \in 1..MaxCustom}

SetNF == \E handler \in NotFoundHandlers : SetNotFoundHandler(Root, handler)

UseNF ==
    \E k \in Middlewares :
        /\ Len(muxes[Root].middlewares) < MaxUsedNF
        /\ Use(Root, <<k>>)

NFPatterns == { <<"/", "a">>, <<"/", "a", "/">>, <<"/", ":", "w">>, <<"/", "b", "/">> }

HandleNF ==
    \E p \in NFPatterns :
        /\ handleCalls < MaxMwHandles
        /\ Handle(Root, p, Leaf(handleCalls + 1), <<>>)

NextNF == SetNF \/ UseNF \/ HandleNF \/ RequestReg \/ Recycle

SpecNF == Init /\ [][NextNF]_vars

----------------------------------------------------------------------------
(* Requests in flight at the same time, each on its own goroutine, on a    *)
(* router with a nested router.  A step is what a goroutine does between   *)
(* two accesses to what it shares with the others: the pool and the lists. *)

\* what sync.Pool's New makes: make([]internal.Param, 12)
NewList == [k \in 1..12 |-> [Key |-> <<>>, Value |-> <<>>]]

\* the lists that a call of pool.Params.Get may return: one that was put
\* back, or a new one
Gettable(p) ==
    p.free \cup (IF Len(p.lists) < MaxLists THEN {Len(p.lists) + 1} ELSE {})

\* Get that leaves the list it returns in the pool
ParamsGet_keep(p, id) ==
    IF id = Len(p.lists) + 1
    THEN [free |-> p.free \cup {id}, lists |-> Append(p.lists, <<>>)]
    ELSE [free |-> p.free, lists |-> [p.lists EXCEPT ![id] = <<>>]]

\* Get without `*params = (*params)[:0]`
ParamsGet_noReset(p, id) ==
    IF id = Len(p.lists) + 1
    THEN [free |-> p.free, lists |-> Append(p.lists, NewList)]
    ELSE [free |-> p.free \ {id}, lists |-> p.lists]

\* the pool after ParamPool.Get has returned list id, cut to length 0
ParamsGet(p, id) ==
    IF id = Len(p.lists) + 1
    THEN [free |-> p.free, lists |-> Append(p.lists, SubSeq(NewList, 1, 0))]
    ELSE [free |-> p.free \ {id}, lists |-> [p.lists EXCEPT ![id] = SubSeq(@, 1, 0)]]

\* the pool after ParamPool.Put(params)
ParamsPut(p, id) == IF id = 0 THEN p ELSE [p EXCEPT !.free = @ \cup {id}]

\* goroutine i enters Mux.ServeHTTP(w, r) with r.URL.Path = path, makes the
\* Context and is about to call m.ServeHTTPx
Begin(i, path) ==
    /\ inflight[i].pc = "idle"
    /\ \E id \in Gettable(paramPool) :
           /\ paramPool' = ParamsGet(paramPool, id)
           /\ inflight' = [inflight EXCEPT ![i] =
                  [Idle EXCEPT !.pc = "ServeHTTPx", !.og = path, !.path = path,
                               !.mux = Root, !.gets = 1,
                               !.c = [ogReqPath |-> path, pattern |-> <<>>, params |-> id]]]
    /\ UNCHANGED <<nodes, muxes, registered, handleCalls, lastErr, pc, req, resp>>

\* goroutine i runs ServeHTTPx of router inflight[i].mux up to the call of
\* the handler it selects: the lookup appends to the list that c.params
\* points to
Route(i) ==
    LET g == inflight[i]
        m == g.mux
        l == Lookup(nodes, muxes[m].root, g.path, paramPool.lists[g.c.params],
                    muxes[m].matchTrailingSlash)
        fault == l.fault \/ (~l.value.isNil /\ g.c.pattern # <<>> /\ l.value.pattern = <<>>)
        handler == IF ~l.value.isNil THEN l.value.handler
                   ELSE IF muxes[m].notFoundHandler.kind # "nil"
                   THEN muxes[m].notFoundHandler
                   ELSE defaultNotFoundHandler
        pattern == IF l.value.isNil THEN g.c.pattern
                   ELSE IF g.c.pattern # <<>> THEN g.c.pattern \o From(l.value.pattern, 1)
                   ELSE l.value.pattern
    IN /\ g.pc = "ServeHTTPx"
       /\ paramPool' = [paramPool EXCEPT !.lists[g.c.params] = l.params]
       /\ inflight' = [inflight EXCEPT ![i] =
              IF fault THEN [g EXCEPT !.pc = "panic"]
              ELSE [g EXCEPT !.pc = "call", !.handler = handler, !.c.pattern = pattern]]
       /\ UNCHANGED <<nodes, muxes, registered, handleCalls, lastErr, pc, req, resp>>

\* goroutine i runs the handler selected: StripDepth's wrapper and a *Mux go
\* on to ServeHTTPx of the nested router with the same Context; any other
\* handler reads its Context, writes its response and returns
Enter(i) ==
    LET g == inflight[i]
        c == [g.c EXCEPT !.params = paramPool.lists[g.c.params]]
    IN /\ g.pc = "call"
       /\ inflight' = [inflight EXCEPT ![i] =
              IF g.handler.kind = "strip"
              THEN [g EXCEPT !.pc = "ServeHTTPx", !.mux = g.handler.mux,
                             !.path = StripRequests(g.path, g.handler.depth).r2]
              ELSE IF g.handler.kind = "mux"
              THEN [g EXCEPT !.pc = "ServeHTTPx", !.mux = g.handler.mux]
              ELSE [g EXCEPT !.pc = "return",
                             !.out = Invoke(nodes, muxes, g.handler, g.path, c)]]
       /\ UNCHANGED <<nodes, muxes, registered, handleCalls, lastErr, pc, req, resp,
                      paramPool>>

\* m.ServeHTTPx has returned to Mux.ServeHTTP: pool.Params.Put(c.params)
Return(i) ==
    /\ inflight[i].pc = "return"
    /\ paramPool' = ParamsPut(paramPool, inflight[i].c.params)
    /\ inflight' = [inflight EXCEPT ![i].pc = "done", ![i].puts = @ + 1]
    /\ UNCHANGED <<nodes, muxes, registered, handleCalls, lastErr, pc, req, resp>>

\* the goroutine is over, after ServeHTTP returned or after net/http
\* recovered its panic
Collect(i) ==
    /\ inflight[i].pc \in {"done", "panic"}
    /\ inflight' = [inflight EXCEPT ![i] = Idle]
    /\ UNCHANGED <<nodes, muxes, registered, handleCalls, lastErr, pc, req, resp,
                   paramPool>>

ConcRootPatterns == { <<"/", "a">> }

ConcMountPatterns == { <<"/", ":", "w", "/">> }

ConcChildPatterns == { <<"/", ":", "v">>, <<"/", "b", "/">> }

ConcPaths == { <<"/", "a">>, <<"/", "a", "/", "b">>, <<"/", "b", "/", "a">> }

HandleConc ==
    \/ \E p \in ConcRootPatterns : Handle(Root, p, Leaf(handleCalls + 1), <<>>)
    \/ \E p \in ConcChildPatterns : Handle(Child, p, Leaf(handleCalls + 1), <<>>)

MountConc ==
    \E p \in ConcMountPatterns : Handle(Root, p, StripDepth(SlashesUpto(p, Len(p) - 1), Child), <<>>)

BeginConc == \E i \in Goroutines, path \in ConcPaths : Begin(i, path)

RouteConc == \E i \in Goroutines : Route(i)

EnterConc == \E i \in Goroutines : Enter(i)

ReturnConc == \E i \in Goroutines : Return(i)

CollectConc == \E i \in Goroutines : Collect(i)

NextConc ==
    HandleConc \/ MountConc \/ BeginConc \/ RouteConc \/ EnterConc \/ ReturnConc \/ CollectConc

SpecConc == InitNested /\ [][NextConc]_vars

----------------------------------------------------------------------------
(* stripDepth on its own: the table test, with every input of the bounds.  *)

StripChars == {"/", "a", leadByte, contByte}

StripInputs == UNION {[1..k -> StripChars] : k \in 0..MaxStripLen}

\* one case of the table: Input is kept in req and the result in resp.path
StripCase(Input, Depth) ==
    /\ pc = "idle"
    /\ req' = Input
    /\ resp' = [NoResp EXCEPT !.kind = "stripped", !.path = stripDepth(Input, Depth)]
    /\ pc' = "served"
    /\ UNCHANGED <<nodes, muxes, registered, handleCalls, lastErr, inflight, paramPool>>

TestStripPathDepth ==
    \E Input \in StripInputs, Depth \in 0..MaxStripDepth : StripCase(Input, Depth)

NextStrip == TestStripPathDepth \/ Recycle

SpecStrip == Init /\ [][NextStrip]_vars

----------------------------------------------------------------------------
(* What the patterns mean (the data model of the routing patterns), stated *)
(* on the pattern strings alone, without the trie.                         *)

IsLiteral(q) == \A i \in 1..Len(q) : q[i] \notin {":", "*"}

IsSubtree(q) == q # <<>> /\ q[Len(q)] = "/"

NoSlash(s) == \A i \in 1..Len(s) : s[i] # "/"

\* the first k bytes of s, and s without them (all of s, or nothing, when s is
\* shorter)
Take(s, k) == SubSeq(s, 1, Min(k, Len(s)))

Drop(s, k) == IF k >= Len(s) THEN <<>> ELSE SubSeq(s, k + 1, Len(s))

\* the part of s before its first '/', and the rest from that '/' on
Segment(s) == IF IndexByte(s, "/") = -1 THEN s ELSE Upto(s, IndexByte(s, "/"))

AfterSegment(s) == IF IndexByte(s, "/") = -1 THEN <<>> ELSE From(s, IndexByte(s, "/"))

RECURSIVE MatchesAs(_, _, _)

\* pattern q matches path p in full: literal bytes match themselves, :name
\* matches one segment (an empty one too when emptyOk), *name matches the
\* remainder
MatchesAs(q, p, emptyOk) ==
    IF q = <<>> THEN p = <<>>
    ELSE IF q[1] = ":"
    THEN /\ emptyOk \/ Segment(p) # <<>>
         /\ MatchesAs(AfterSegment(q), AfterSegment(p), emptyOk)
    ELSE IF q[1] = "*"
    THEN AfterSegment(q) = <<>>
    ELSE p # <<>> /\ p[1] = q[1] /\ MatchesAs(Tail(q), Tail(p), emptyOk)

\* q matches p as the data model has it: a wildcard matches a non-empty segment
Matches(q, p) == MatchesAs(q, p, FALSE)

\* subtree pattern q matches a prefix of p
MatchesPrefix(q, p) == IsSubtree(q) /\ \E k \in 1..Len(p) : Matches(q, Upto(p, k))

RECURSIVE Bindings(_, _)

\* the bindings a pattern's wildcards and catch-all take, left to right, when
\* q is laid over p (p may run on after the end of q)
Bindings(q, p) ==
    IF q = <<>> THEN <<>>
    ELSE IF q[1] = ":"
    THEN <<[Key |-> Tail(Segment(q)), Value |-> Segment(p)]>>
         \o Bindings(AfterSegment(q), AfterSegment(p))
    ELSE IF q[1] = "*"
    THEN <<[Key |-> Tail(q), Value |-> p]>>
    ELSE Bindings(Tail(q), IF p = <<>> THEN p ELSE Tail(p))

RECURSIVE WildcardNames(_)

\* the names of the :name segments of pattern q
WildcardNames(q) ==
    IF q = <<>> THEN {}
    ELSE IF q[1] = ":"
    THEN {Tail(Segment(q))} \cup WildcardNames(AfterSegment(q))
    ELSE IF q[1] = "*"
    THEN {}
    ELSE WildcardNames(Tail(q))

\* the patterns registered with the top-level router
Registered == {registered[i].pattern : i \in {j \in 1..Len(registered) : registered[j].mux = Root}}

\* the application handler registered at pattern q
HandlerAt(q) ==
    CHOOSE i \in 1..Len(registered) : registered[i].mux = Root /\ registered[i].pattern = q

Served == pc = "served"

\* the request was answered by the handler registered at pattern q
RoutedTo(q) ==
    /\ resp.kind = "handler"
    /\ resp.pattern = q
    /\ resp.handler = registered[HandlerAt(q)].handler.id

MTS == muxes[Root].matchTrailingSlash

\* path p is P + "/" for a path P that some registered pattern other than
\* `but` matches in full, a wildcard taken to match an empty segment as well
IsSlashedMatch(p, but) ==
    /\ Len(p) > 1 /\ p[Len(p)] = "/"
    /\ \E q \in Registered \ {but} : MatchesAs(q, Take(p, Len(p) - 1), TRUE)

\* no segment of p after its leading '/' is empty
NoEmptySegment(p) == \A i \in 1..(Len(p) - 1) : ~(p[i] = "/" /\ p[i + 1] = "/")

\* the longest prefix of p that subtree pattern q matches (0 when none)
PrefixLen(q, p) ==
    LET ks == {k \in 1..Len(p) : IsSubtree(q) /\ Matches(q, Take(p, k))}
    IN IF ks = {} THEN 0 ELSE CHOOSE k \in ks : \A j \in ks : j <= k

----------------------------------------------------------------------------
(* Claims *)

\* C1: static precedence. When a registered pattern made only of literal
\* bytes is byte-equal to the request path, the router selects that pattern's
\* handler and reports it as the matched pattern, never a wildcard's or
\* catch-all's handler.
C1_StaticPrecedence ==
    (Served /\ req \in Registered /\ IsLiteral(req)) => RoutedTo(req)

\* a literal pattern was asked for while a pattern with a wildcard or a
\* catch-all that matches the same path is registered too
C1_Witness ==
    /\ Served /\ req \in Registered /\ IsLiteral(req)
    /\ \E q \in Registered : ~IsLiteral(q) /\ Matches(q, req)
    /\ RoutedTo(req)

\* the request path X/t of claim C2 for registered X/:w and X/s: the two
\* patterns share the literal prefix X (ending in '/'), s and t are non-empty
\* segments without '/', and t differs from s
IsSiblingCase(wp, sp, t) ==
    /\ Registered = {wp, sp}
    /\ IsLiteral(sp)
    /\ \E k \in 1..Len(sp) :
          /\ sp[k] = "/"
          /\ Len(wp) > k + 1
          /\ Take(wp, k) = Take(sp, k)
          /\ wp[k + 1] = ":"
          /\ NoSlash(Drop(wp, k)) /\ IsLiteral(Drop(wp, k + 1))
          /\ NoSlash(Drop(sp, k)) /\ Drop(sp, k) # <<>>
          /\ HasPrefix(req, Take(sp, k))
          /\ t = Drop(req, k)
          /\ t # <<>> /\ NoSlash(t) /\ t # Drop(sp, k)

\* C2: wildcard sibling fallback. With exactly X/:w and X/s registered, every
\* request X/t with t a non-empty segment other than s is routed to X/:w with
\* w bound to t, also when t is a proper prefix or a proper extension of s.
C2_WildcardSiblingFallback ==
    \A wp, sp \in Registered :
        \A k \in 1..Len(req) :
            (Served /\ IsSiblingCase(wp, sp, Drop(req, k)))
            => (RoutedTo(wp) /\ resp.params = Bindings(wp, req))

\* C3: no backtracking past a fully consumed static segment. With exactly
\* X/:w, X/:w/T and X/s registered, the request X/s/T is answered not-found.
C3_NoBacktracking ==
    \A wp, wt, sp \in Registered :
        (/\ Served
         /\ Registered = {wp, wt, sp}
         /\ IsLiteral(sp)
         /\ \E k \in 1..Len(sp) :
               /\ sp[k] = "/" /\ NoSlash(Drop(sp, k)) /\ Drop(sp, k) # <<>>
               /\ Take(wp, k) = Take(sp, k)
               /\ Len(wp) > k + 1 /\ wp[k + 1] = ":"
               /\ NoSlash(Drop(wp, k)) /\ IsLiteral(Drop(wp, k + 1))
               /\ HasPrefix(wt, wp \o <<"/">>) /\ Len(wt) > Len(wp) + 1
               /\ IsLiteral(Drop(wt, Len(wp)))
               /\ req = sp \o Drop(wt, Len(wp)))
        => resp.kind = "notfound"

\* X/:w, X/:w/T and X/s are what is registered and X/s/T was asked for
C3_Witness ==
    /\ Served
    /\ resp.kind = "notfound"
    /\ \E wp, wt, sp \in Registered :
          /\ Registered = {wp, wt, sp}
          /\ IsLiteral(sp) /\ ~IsLiteral(wp)
          /\ HasPrefix(wt, wp \o <<"/">>) /\ Len(wt) > Len(wp) + 1
          /\ IsLiteral(Drop(wt, Len(wp)))
          /\ req = sp \o Drop(wt, Len(wp))
          /\ Matches(wt, req)

\* C4 for the path P/x: no registered pattern is more specific than P/ for it
NothingMoreSpecific(sub) ==
    /\ ~(MTS /\ IsSlashedMatch(req, sub))
    /\ \A q \in Registered \ {sub} :
          /\ ~Matches(q, req)
          /\ PrefixLen(q, req) <= Len(sub)

IsTwoSubtrees(s1, s2) ==
    /\ IsLiteral(s1) /\ IsSubtree(s1) /\ IsLiteral(s2) /\ IsSubtree(s2)
    /\ s1 # s2 /\ HasPrefix(s2, s1) /\ HasPrefix(req, s2)
    /\ \A q \in Registered : ~Matches(q, req) /\ PrefixLen(q, req) <= Len(s2)

C6_SubtreeClosure ==
    (Served /\ \E q \in Registered : IsLiteral(q) /\ IsSubtree(q) /\ HasPrefix(req, q))
    => resp.kind \in {"handler", "redirect"}

\* a path below a literal subtree pattern, matched in full by no registered
\* pattern, was answered by a registered handler
C6_Witness ==
    /\ Served
    /\ \E q \in Registered : IsLiteral(q) /\ IsSubtree(q) /\ HasPrefix(req, q) /\ req # q
    /\ \A q \in Registered : ~Matches(q, req)
    /\ resp.kind = "handler"

\* C7: redirect exclusivity. If a registered subtree pattern matches P + "/"
\* and no registered pattern matches the request path P, the request for P is
\* answered with the 301 redirect to P + "/", not with not-found (stated here
\* for the paths that begin with '/').
C7_RedirectExclusivity ==
    (/\ Served
     /\ HasPrefix(req, <<"/">>)
     /\ \E q \in Registered : IsSubtree(q) /\ Matches(q, req \o <<"/">>)
     /\ \A q \in Registered : ~Matches(q, req) /\ PrefixLen(q, req) = 0
     /\ ~(MTS /\ IsSlashedMatch(req, <<>>)))
    => (resp.kind = "redirect" /\ resp.status = 301 /\ resp.location = req \o <<"/">>)

\* C9 as claimed: parameter capture. However the handler was selected, the
\* parameter list it sees holds exactly the bindings of the matched pattern's
\* wildcards and catch-all, in the pattern's order, and no other binding
\* (stated here for the paths without empty segments).
C9_ParameterCapture_Claimed ==
    (Served /\ resp.kind = "handler" /\ NoEmptySegment(req))
    => resp.params = Bindings(resp.pattern, req)

\* C9 as amended: the parameter list begins with the bindings of the matched
\* pattern's wildcards and catch-all, in the pattern's order, each bound to its
\* part of the path; it holds nothing else when the pattern matches the path
\* in full, and may go on with bindings of wildcards tried deeper in the walk
\* when the handler was selected as a fallback.
C9_ParameterCapture ==
    (Served /\ resp.kind = "handler")
    => LET own == Bindings(resp.pattern, req)
       IN /\ Len(own) <= Len(resp.params)
          /\ Take(resp.params, Len(own)) = own
          /\ MatchesAs(resp.pattern, req, TRUE) => resp.params = own

\* a handler selected as a fallback saw its pattern's own binding followed by
\* the binding of a deeper wildcard
C9_Witness ==
    /\ Served /\ resp.kind = "handler" /\ NoEmptySegment(req)
    /\ Bindings(resp.pattern, req) # <<>>
    /\ Len(resp.params) > Len(Bindings(resp.pattern, req))
    /\ Take(resp.params, Len(Bindings(resp.pattern, req))) = Bindings(resp.pattern, req)

\* C10: a wildcard only ever matches a non-empty segment. No binding of a
\* :name segment that a selected handler sees has the empty string as value.
C10_NonEmptyWildcard ==
    (Served /\ resp.kind = "handler")
    => \A i \in 1..Len(resp.params) :
           resp.params[i].Key \in WildcardNames(resp.pattern)
           => resp.params[i].Value # <<>>

RECURSIVE YieldsRedirect(_, _)

\* the lookup of router m for `path`, or the lookup of the router that the
\* selected StripDepth wrapper hands the request to, yields the redirect value
YieldsRedirect(m, path) ==
    LET l == Lookup(nodes, muxes[m].root, path, <<>>, muxes[m].matchTrailingSlash)
    IN IF l.fault \/ l.value.isNil THEN FALSE
       ELSE IF l.value = redirectValue THEN TRUE
       ELSE IF l.value.handler.kind = "strip"
       THEN YieldsRedirect(l.value.handler.mux, stripDepth(path, l.value.handler.depth))
       ELSE FALSE

\* C8: redirect response. Whenever a lookup yields the redirect outcome, in
\* the top-level router or in a router nested behind StripDepth, the response
\* is 301 with Location the original request path followed by '/', and the
\* request completes without a fault.
C8_RedirectResponse ==
    (Served /\ YieldsRedirect(Root, req))
    => (resp.kind = "redirect" /\ resp.status = 301 /\ resp.location = req \o <<"/">>)

\* q is X/*name with X/ a literal prefix; StarAt(q) is the position of its '*'
StarAt(q) == CHOOSE k \in 1..Len(q) : q[k] = "*"

IsLiteralCatchall(q) ==
    /\ \E k \in 1..Len(q) : q[k] = "*"
    /\ IsLiteral(Take(q, StarAt(q) - 1))
    /\ IsSubtree(Take(q, StarAt(q) - 1))

\* C11: catch-all coverage. With X/*name registered (X/ literal), every
\* request X/r with r non-empty is answered by a registered handler, whatever
\* else is registered under X/, and never by the not-found handler.
C11_CatchallCoverage ==
    \A q \in Registered :
        (/\ Served
         /\ IsLiteralCatchall(q)
         /\ HasPrefix(req, Take(q, StarAt(q) - 1))
         /\ Len(req) >= StarAt(q))
        => resp.kind = "handler"

RECURSIVE BuildFrom(_, _, _)

\* the trie that a new router has after the registrations regs[i], regs[i+1],
\* ... made in that order on heap h, and the first error met ("" when none)
BuildFrom(h, regs, i) ==
    IF i > Len(regs) THEN [nodes |-> h, err |-> ""]
    ELSE LET wrapped == WithMiddleware(regs[i].handler, regs[i].use \o regs[i].mws)
             r == Insert(h, Root, regs[i].pattern, MkValue(wrapped, regs[i].pattern))
         IN IF r.err # "" THEN [nodes |-> r.nodes, err |-> r.err]
            ELSE BuildFrom(r.nodes, regs, i + 1)

\* the orders in which the registrations made so far can be made
Orders ==
    {f \in [1..Len(registered) -> 1..Len(registered)] :
        \A i, j \in 1..Len(registered) : f[i] = f[j] => i = j}

Reordered(f) == [i \in 1..Len(registered) |-> registered[f[i]]]

\* every Handle call made so far succeeded
NoFailedHandle == handleCalls = Len(registered)

\* C12: registration determinism. When every registration made so far
\* succeeded, registering the same patterns in any other order succeeds too
\* and gives a router that answers the request in the same way: same handler,
\* matched pattern, parameter bindings, redirect or not-found.
C12_RegistrationDeterminism ==
    (Served /\ NoFailedHandle)
    => \A f \in Orders :
           LET b == BuildFrom(<<MkNode(<<>>, NilValue, <<>>, <<>>, static)>>, Reordered(f), 1)
           IN /\ b.err = ""
              /\ ServeHTTPx(b.nodes, muxes, Root, req, Context(req, <<>>, <<>>)) = resp

\* three nested patterns A, A/B and A/B... were registered in an order other
\* than shortest first, and the request was answered by one of them
C12_Witness ==
    /\ Served /\ NoFailedHandle /\ Len(registered) = 3
    /\ HasPrefix(registered[3].pattern, registered[2].pattern)
    /\ HasPrefix(registered[1].pattern, registered[3].pattern)
    /\ resp.kind = "handler"

\* C13: a pattern that is already registered cannot be registered again.
\* Every Handle call for a registered pattern fails with 'multiple
\* registrations', whatever was registered or had failed before, and leaves
\* the registrations and the trie (so the handler selected) as they were.
C13_DuplicateRegistration ==
    [][\A p \in Patterns :
          (p \in Registered /\ Handle(Root, p, Leaf(handleCalls + 1), <<>>))
          => (/\ lastErr' = errMultipleRegistrations
              /\ registered' = registered
              /\ nodes' = nodes)]_vars

\* the third Handle call failed with 'multiple registrations' after the node
\* of the first pattern had been split by the second one
C13_Witness ==
    /\ pc = "idle" /\ handleCalls = 3 /\ Len(registered) = 2
    /\ lastErr = errMultipleRegistrations
    /\ registered[1].pattern # registered[2].pattern
    /\ HasPrefix(registered[1].pattern, registered[2].pattern)

\* the wildcards and catch-alls of pattern q: where each stands (the pattern
\* text before it), its kind (':' or '*') and its name
DynAt(q) ==
    {<<Take(q, k - 1), q[k], Segment(Drop(q, k))>> :
        k \in {j \in 1..Len(q) : q[j] \in {":", "*"}}}

\* nothing follows the catch-all of pattern q
CatchallLast(q) == \A k \in 1..Len(q) : q[k] = "*" => NoSlash(Drop(q, k))

\* pattern p has a wildcard or catch-all where a registered pattern has one
\* of the same kind with another name
NameConflict(p) ==
    \E q \in Registered : \E a \in DynAt(p), b \in DynAt(q) :
        a[1] = b[1] /\ a[2] = b[2] /\ a[3] # b[3]

\* the places of the registered patterns' wildcards (kind ':') or catch-alls
\* (kind '*')
DynPlaces(kind) ==
    {a[1] : a \in {b \in UNION {DynAt(q) : q \in Registered} : b[2] = kind}}

NodesOfType(type) == {i \in 1..Len(nodes) : nodes[i].Type = type}

\* a Handle call made no more new wildcard (catch-all) nodes than the new
\* pattern has new places of wildcards (catch-alls)
ReusesNodes ==
    /\ Cardinality(NodesOfType(wildcard)') - Cardinality(NodesOfType(wildcard))
       <= Cardinality(DynPlaces(":")') - Cardinality(DynPlaces(":"))
    /\ Cardinality(NodesOfType(catchall)') - Cardinality(NodesOfType(catchall))
       <= Cardinality(DynPlaces("*")') - Cardinality(DynPlaces("*"))

\* C14 as claimed: one wildcard and one catch-all child per node. Registering
\* any pattern with a wildcard or catch-all named differently from the one
\* registered at the same place fails with 'mismatched wild cards' and
\* registers nothing; a pattern with the same name at the same place reuses
\* the node that is there.
C14_OneWildcardPerNode_Claimed ==
    [][\A p \in RegPatterns :
          Handle(Root, p, Leaf(handleCalls + 1), <<>>)
          => /\ registered' # registered => ReusesNodes
             /\ NameConflict(p) => (lastErr' = errMismatched /\ registered' = registered)]_vars

\* C14 as amended: the same, except that a pattern with a segment after its
\* catch-all fails with the segments-after-catchall error when that error is
\* met before the differing name is.
C14_OneWildcardPerNode ==
    [][\A p \in RegPatterns :
          Handle(Root, p, Leaf(handleCalls + 1), <<>>)
          => /\ registered' # registered => ReusesNodes
             /\ NameConflict(p)
                => /\ registered' = registered
                   /\ lastErr' = errMismatched \/ (~CatchallLast(p) /\ lastErr' = errAfterCatchall)
             /\ (NameConflict(p) /\ CatchallLast(p)) => lastErr' = errMismatched]_vars

\* a catch-all name and a wildcard name are registered, a pattern shares the
\* wildcard node, and the last Handle call failed with 'mismatched wild cards'
C14_Witness ==
    /\ pc = "idle" /\ lastErr = errMismatched /\ handleCalls = 3
    /\ DynPlaces("*") # {}
    /\ DynPlaces(":") # {}

\* no catch-all node has a static, wildcard or catch-all child
CatchallTerminal ==
    \A i \in NodesOfType(catchall) :
        nodes[i].Children = <<>> /\ nodes[i].Wildcard = 0 /\ nodes[i].Catchall = 0

\* pattern p has a wildcard before its catch-all
WildcardBeforeStar(p) == \E a \in DynAt(p) : a[2] = ":" /\ Len(a[1]) < StarAt(p)

\* a wildcard that pattern p has before its catch-all is named differently
\* from the wildcard that a registered pattern has at the same place
WildcardConflictBeforeStar(p) ==
    \E q \in Registered : \E a \in DynAt(p), b \in DynAt(q) :
        /\ a[2] = ":" /\ Len(a[1]) < StarAt(p)
        /\ a[1] = b[1] /\ a[2] = b[2] /\ a[3] # b[3]

\* C15 as claimed: catch-all is terminal. Registering any pattern with a '/'
\* after its catch-all fails with the segments-after-catchall error, and no
\* catch-all node of the trie ever has a child.
C15_CatchallTerminal_Claimed ==
    /\ []CatchallTerminal
    /\ [][\A p \in RegPatterns :
             (Handle(Root, p, Leaf(handleCalls + 1), <<>>) /\ ~CatchallLast(p))
             => (lastErr' = errAfterCatchall /\ registered' = registered)]_vars

\* C15 as amended: such a registration always fails and registers nothing,
\* and no catch-all node ever has a child; the error is the
\* segments-after-catchall error, except that 'mismatched wild cards' comes
\* first when a wildcard before the catch-all differs in name from the one at
\* its place.
C15_CatchallTerminal ==
    /\ []CatchallTerminal
    /\ [][\A p \in RegPatterns :
             (Handle(Root, p, Leaf(handleCalls + 1), <<>>) /\ ~CatchallLast(p))
             => /\ registered' = registered
                /\ lastErr' \in {errAfterCatchall, errMismatched}
                /\ ~WildcardBeforeStar(p) => lastErr' = errAfterCatchall
                /\ WildcardConflictBeforeStar(p) => lastErr' = errMismatched]_vars

\* a catch-all is registered and the last Handle call failed with the
\* segments-after-catchall error
C15_Witness ==
    /\ pc = "idle" /\ lastErr = errAfterCatchall
    /\ NodesOfType(catchall) # {}
    /\ Registered # {}

\* the request path without its last byte
ReqButLast == Take(req, Len(req) - 1)

\* the request is for P/ of claim C16: P is a registered fixed pattern without
\* a catch-all, P/ is not registered, and the path is a path that P matches
\* followed by '/'
IsSlashedRequestFor(P) ==
    /\ Served
    /\ ~IsSubtree(P) /\ \A k \in 1..Len(P) : P[k] # "*"
    /\ (P \o <<"/">>) \notin Registered
    /\ Len(req) > 1 /\ req[Len(req)] = "/"
    /\ Matches(P, ReqButLast)

\* no registered pattern other than P matches the request path in full or
\* matches it without its final '/', a wildcard taken to match an empty
\* segment as well
NoRival(P) ==
    \A Q \in Registered \ {P} :
        ~MatchesAs(Q, req, TRUE) /\ ~MatchesAs(Q, ReqButLast, TRUE)

\* no registered pattern matches the request path in full, as a subtree
\* prefix, or when a '/' is added to the path
NothingMatches ==
    \A Q \in Registered :
        /\ ~MatchesAs(Q, req, TRUE)
        /\ ~MatchesAs(Q, req \o <<"/">>, TRUE)
        /\ ~(IsSubtree(Q) /\ \E k \in 1..Len(req) : MatchesAs(Q, Take(req, k), TRUE))

\* C16: match-trailing-slash. For a registered fixed pattern P with P/ not
\* registered and a request for P/: with the option on, P's handler is invoked
\* with P's bindings; with the option off, P's handler is not invoked and the
\* answer is not-found (stated here for the requests that no other registered
\* pattern matches: with the option on, none matches the path or the path
\* without its final '/'; with the option off, none matches the path in any
\* way).
C16_MatchTrailingSlash ==
    \A P \in Registered :
        IsSlashedRequestFor(P)
        => /\ (MTS /\ NoRival(P)) => (RoutedTo(P) /\ resp.params = Bindings(P, req))
           /\ ~MTS => ~RoutedTo(P)
           /\ (~MTS /\ NothingMatches) => resp.kind = "notfound"

\* with the option on, the request for P/ was answered by the fixed pattern P
\* (P ends in a literal or in a wildcard segment)
IsSlashedRouteTo(P) ==
    /\ Served /\ MTS
    /\ ~IsSubtree(P) /\ \A k \in 1..Len(P) : P[k] # "*"
    /\ Len(req) > 1 /\ req[Len(req)] = "/"
    /\ Matches(P, ReqButLast)
    /\ RoutedTo(P)

\* C17 as claimed: with match-trailing-slash on, a request for P/ is routed
\* to the fixed pattern P only when no registered pattern matches P/ exactly
\* and no registered subtree pattern, the root subtree '/' included, is a
\* prefix of it.
C17_SlashOnlyWithoutSubtree_Claimed ==
    \A P \in Registered :
        IsSlashedRouteTo(P)
        => \A Q \in Registered : ~Matches(Q, req) /\ PrefixLen(Q, req) = 0

\* C17 as amended: with match-trailing-slash on, a request for P/ is routed
\* to the fixed pattern P only when neither the subtree pattern P/ nor the
\* request path itself is a registered pattern; a subtree pattern that is a
\* proper prefix of the path does not prevent it.
C17_SlashOnlyWithoutSubtree ==
    \A P \in Registered :
        IsSlashedRouteTo(P)
        => (P \o <<"/">>) \notin Registered /\ req \notin Registered

\* the fixed pattern P answered the request for P/ while a registered subtree
\* pattern is a prefix of the path
C17_Witness ==
    \E P \in Registered :
        /\ IsSlashedRouteTo(P)
        /\ \E Q \in Registered : PrefixLen(Q, req) > 0

----------------------------------------------------------------------------
(* Middlewares                                                              *)

\* the registration whose handler answered the request
Answering == registered[HandlerAt(resp.pattern)]

Last(seq) == seq[Len(seq)]

\* C18: a handler registered while the router had the middlewares u1..uk
\* from Use, with the call-site middlewares m1..mn, is called through u1, ...,
\* uk, m1, ..., mn in that order, and the response header that all of them
\* set has the value of the last one, mn (or uk when n = 0).
C18_MiddlewareOrder ==
    (Served /\ resp.kind = "handler") =>
        /\ resp.trace = Answering.use \o Answering.mws
        /\ resp.header = IF resp.trace = <<>> THEN 0 ELSE Last(Answering.use \o Answering.mws)

C18_Witness ==
    /\ Served
    /\ resp.kind = "handler"
    /\ Len(Answering.use) >= 1
    /\ Len(Answering.mws) = 2
    /\ resp.trace = Answering.use \o Answering.mws
    /\ resp.header = Answering.mws[2]
    /\ resp.header # resp.trace[1]

\* what the router answers to a request of path, as a function of the state
Answer(h, ms, path) == ServeHTTPx(h, ms, Root, path, Context(path, <<>>, <<>>))

\* C19: a call of Use changes the answer to no request, so the handlers
\* registered before it are not passed through its middlewares; and a
\* handler that a later call of Handle registers is called through all the
\* middlewares that the calls of Use made so far have added, in their order.
C19_UseNotRetroactive ==
    [][/\ \A mws \in MwLists :
              Use(Root, mws) =>
                  \A path \in MwPaths : Answer(nodes', muxes', path) = Answer(nodes, muxes, path)
       /\ \A p \in MwPatterns, mws \in MwLists :
              (Handle(Root, p, Leaf(handleCalls + 1), mws) /\ lastErr' = "") =>
                  LET a == Answer(nodes', muxes', p)
                      used == muxes[Root].middlewares
                  IN /\ a.kind = "handler"
                     /\ a.handler = handleCalls + 1
                     /\ Len(a.trace) >= Len(used)
                     /\ SubSeq(a.trace, 1, Len(used)) = used]_vars

\* a handler registered before the last Use answers a request, and another
\* handler was registered after that Use
C19_Witness ==
    /\ Served
    /\ resp.kind = "handler"
    /\ Len(Answering.use) < Len(muxes[Root].middlewares)
    /\ \E i \in 1..Len(registered) : registered[i].use = muxes[Root].middlewares
    /\ \A k \in 1..Len(resp.trace) :
           resp.trace[k] \in {Answering.use[j] : j \in 1..Len(Answering.use)}
                             \cup {Answering.mws[j] : j \in 1..Len(Answering.mws)}

----------------------------------------------------------------------------
(* stripDepth                                                               *)

\* the Go indices after 0 at which p has a '/', in increasing order
RECURSIVE SlashesAfter(_, _)

SlashesAfter(p, i) ==
    IF i >= Len(p) THEN <<>>
    ELSE (IF p[i + 1] = "/" THEN <<i>> ELSE <<>>) \o SlashesAfter(p, i + 1)

\* what stripDepth(p, n) is said to return
Stripped(p, n) ==
    LET slashes == SlashesAfter(p, 1)
    IN IF n = 0 THEN p
       ELSE IF Len(slashes) < n \/ slashes[n] = Len(p) - 1 THEN <<"/">>
       ELSE From(p, slashes[n])

\* C20: stripDepth(p, 0) is p; for n >= 1 stripDepth(p, n) is the suffix of
\* p from its n-th '/' after index 0, and "/" when p has fewer than n such
\* slashes or when that slash is its last byte, so that it begins with '/';
\* a path without a leading '/' then gets the result of the same path with one.
C20_StripDepth ==
    [][\A p \in StripInputs, n \in 0..MaxStripDepth :
           StripCase(p, n) =>
               /\ resp'.path = Stripped(p, n)
               /\ n >= 1 => resp'.path[1] = "/"
               /\ (n >= 1 /\ ~HasPrefix(p, <<"/">>)) =>
                      resp'.path = stripDepth(<<"/">> \o p, n)]_vars

----------------------------------------------------------------------------
(* StripDepth and nested routers                                            *)

\* the request went through a StripDepth wrapper that changed its path
Stripped1 == Served /\ resp.path # req

\* C21: when the call returns, the request object of the caller has the path
\* it had before the call, also when a StripDepth wrapper gave the inner
\* handler another path: the inner handler saw that path, stripDepth of the
\* caller's, on a request of its own.
C21_StripDepthFrame ==
    Served =>
        /\ resp.reqPath = req
        /\ resp.path # req => \E depth \in 0..MaxDepth : resp.path = stripDepth(req, depth)

C21_Witness ==
    /\ Stripped1
    /\ resp.kind = "handler"
    /\ resp.path = stripDepth(req, MaxDepth)
    /\ resp.reqPath = req

\* the patterns registered with the nested router
ChildRegistered ==
    {registered[i].pattern : i \in {j \in 1..Len(registered) : registered[j].mux = Child}}

\* the number of segments of subtree pattern q: "/a/" has one
SegmentCount(q) == Cardinality({i \in 2..Len(q) : q[i] = "/"})

\* req is an instance of P (its first k bytes) followed by an instance of Q
\* without its leading '/'
IsNestedInstance(P, Q, k) ==
    /\ k \in 1..Len(req)
    /\ Matches(P, Take(req, k))
    /\ Matches(Q, <<"/">> \o Drop(req, k))

\* registration i mounts the nested router at subtree pattern P behind
\* StripDepth(number of segments of P), and registration j is the nested
\* router's Q
IsMountOf(i, j) ==
    /\ registered[i].mux = Root
    /\ registered[j].mux = Child
    /\ IsSubtree(registered[i].pattern)
    /\ registered[i].handler.kind = "strip"
    /\ registered[i].handler.depth = SegmentCount(registered[i].pattern)

\* no other pattern of the parent matches the request or a prefix of it, and
\* no other pattern of the nested router matches the rest of it
NoOtherCandidate(P, Q, k) ==
    /\ \A q \in Registered \ {P} : ~Matches(q, req) /\ ~MatchesPrefix(q, req)
    /\ \A q \in ChildRegistered \ {Q} : ~Matches(q, <<"/">> \o Drop(req, k))

\* what C22 says of the response to a request that is an instance of P
\* followed by an instance of Q
NestedOutcome(i, j, k) ==
    LET P == registered[i].pattern
        Q == registered[j].pattern
    IN /\ resp.kind = "handler"
       /\ resp.handler = registered[j].handler.id
       /\ resp.params = Bindings(P, Take(req, k)) \o Bindings(Q, <<"/">> \o Drop(req, k))
       /\ resp.pattern = P \o Tail(Q)

\* C22: router nesting. With the nested router mounted at subtree pattern P
\* behind StripDepth(number of segments of P) and Q registered in it, a
\* request that is an instance of P followed by an instance of Q without its
\* leading '/', and that no other pattern of either router matches, calls Q's
\* handler with P's bindings followed by Q's and with the matched pattern P
\* followed by Q without its leading '/'.
C22_RouterNesting ==
    \A i, j \in 1..Len(registered), k \in 1..MaxPathLen :
        (/\ Served
         /\ IsMountOf(i, j)
         /\ IsNestedInstance(registered[i].pattern, registered[j].pattern, k)
         /\ NoOtherCandidate(registered[i].pattern, registered[j].pattern, k))
        => NestedOutcome(i, j, k)

----------------------------------------------------------------------------
(* One handler per call                                                     *)

\* the calls of handlers that the top-level router made for the request
RootCalls == SelectSeq(resp.calls, LAMBDA call : call.mux = Root)

\* the value that the trie of the top-level router has for the request
Looked == Lookup(nodes, muxes[Root].root, req, <<>>, MTS)

\* C23: a ServeHTTP call makes the router call one handler, once: the handler
\* of the matched pattern, the redirect handler, or the not-found handler,
\* which is the handler that SetNotFoundHandler installed if there is one,
\* and otherwise the default, which answers 404 with "Not Found" and a
\* newline.
C23_OneHandlerPerCall ==
    Served =>
        /\ Len(RootCalls) = 1
        /\ resp.calls = RootCalls
        /\ LET called == RootCalls[1].handler
               installed == muxes[Root].notFoundHandler
           IN IF Looked.value.isNil
              THEN IF installed.kind \notin {"nil", "notfound"}
                   THEN called = installed /\ resp.kind = "custom"
                   ELSE /\ called = defaultNotFoundHandler
                        /\ resp.kind = "notfound"
                        /\ resp.status = 404
                        /\ resp.body = "Not Found\n"
              ELSE IF Looked.value = redirectValue
              THEN called = defaultRedirectHandler /\ resp.kind = "redirect"
              ELSE /\ resp.kind = "handler"
                   /\ Looked.value.pattern \in Registered
                   /\ called.id = registered[HandlerAt(Looked.value.pattern)].handler.id

\* the handler given to SetNotFoundHandler answered, behind the middleware
\* that the router had at the time
C23_Witness ==
    /\ Served
    /\ Looked.value.isNil
    /\ registered # <<>>
    /\ muxes[Root].notFoundHandler.kind = "custom"
    /\ muxes[Root].notFoundHandler.mws # <<>>
    /\ RootCalls = <<[mux |-> Root, handler |-> muxes[Root].notFoundHandler]>>
    /\ resp.trace = muxes[Root].notFoundHandler.mws

----------------------------------------------------------------------------
(* Requests in flight at the same time                                      *)

\* the handler of goroutine i's request has run
Handled(i) == inflight[i].pc \in {"return", "done"}

\* what the router answers to a request of path when it is served alone,
\* with a parameter list of its own
Alone(path) == ServeHTTPx(nodes, muxes, Root, path, Context(path, <<>>, <<>>))

\* C24: routing a request changes no trie node, and with the registrations
\* over, the requests in flight at the same time for one path all get the
\* same handler and matched pattern, those that the path gets when it is
\* served alone; the handler of each request sees the bindings of its own
\* request and nothing else.
C24_ConcurrentRouting ==
    /\ [](\A i \in Goroutines :
             Handled(i) =>
                 /\ inflight[i].out.kind = Alone(inflight[i].og).kind
                 /\ inflight[i].out.handler = Alone(inflight[i].og).handler
                 /\ inflight[i].out.pattern = Alone(inflight[i].og).pattern
                 /\ inflight[i].out.params = Alone(inflight[i].og).params
                 /\ \A j \in Goroutines :
                        (Handled(j) /\ inflight[j].og = inflight[i].og) =>
                            /\ inflight[j].out.handler = inflight[i].out.handler
                            /\ inflight[j].out.pattern = inflight[i].out.pattern)
    /\ [][(\E i \in Goroutines : Route(i) \/ Enter(i) \/ Return(i)) => nodes' = nodes]_vars

\* two requests for one path with bindings have been handled while both were
\* in flight, each with a list of its own
C24_Witness ==
    /\ Handled(1) /\ Handled(2)
    /\ inflight[1].pc = "return" /\ inflight[2].pc = "return"
    /\ inflight[1].og = inflight[2].og
    /\ inflight[1].out.kind = "handler"
    /\ Len(inflight[1].out.params) = 2
    /\ inflight[1].out.params = inflight[2].out.params
    /\ inflight[1].c.params # inflight[2].c.params

\* goroutine i holds the parameter list of its request
Holds(i) == inflight[i].pc \in {"ServeHTTPx", "call", "return", "panic"}

\* C29: a request takes one parameter list from the pool, also when a nested
\* router serves it; the list is empty when routing starts; it is put back
\* once, after the handler selected has returned, and not before; and no two
\* requests in flight hold the same list, nor is a list held in the pool.
C29_ParamPooling ==
    \A i \in Goroutines :
        LET g == inflight[i]
        IN /\ g.pc # "idle" => g.gets = 1 /\ g.c.params \in 1..Len(paramPool.lists)
           /\ (g.pc = "ServeHTTPx" /\ g.mux = Root) => paramPool.lists[g.c.params] = <<>>
           /\ Holds(i) => g.puts = 0 /\ g.c.params \notin paramPool.free
           /\ g.pc = "done" => g.puts = 1
           /\ \A j \in Goroutines \ {i} :
                  (Holds(i) /\ Holds(j)) => g.c.params # inflight[j].c.params

\* a request is being routed by the nested router with the list that its
\* top-level call took, a list that an earlier request had used and put
\* back, while another request in flight holds another list
C29_Witness ==
    \E i \in Goroutines, j \in Goroutines :
        /\ i # j
        /\ inflight[i].pc = "call" /\ inflight[i].mux = Child
        /\ inflight[i].gets = 1
        /\ Holds(j)
        /\ inflight[j].c.params # inflight[i].c.params
        /\ Len(paramPool.lists) = 2
        /\ paramPool.lists[inflight[i].c.params] # <<>>

----------------------------------------------------------------------------
(* The shape of the trie                                                    *)

\* the keys of the static children of node n, in the order of Children
ChildKeys(n) == [i \in 1..Len(nodes[n].Children) |-> nodes[nodes[n].Children[i]].Key]

\* C25: trie shape. After any sequence of insertions that succeeded or
\* failed, at every node: Indices is as long as Children, every static child
\* has a key that is not empty, Indices[i] is the first byte of the key of
\* Children[i], and no two static children have keys with the same first
\* byte.
C25_TrieShape ==
    \A n \in 1..Len(nodes) :
        /\ Len(nodes[n].Indices) = Len(nodes[n].Children)
        /\ \A i \in 1..Len(nodes[n].Children) :
               /\ nodes[nodes[n].Children[i]].Type = static
               /\ ChildKeys(n)[i] # <<>>
               /\ nodes[n].Indices[i] = ChildKeys(n)[i][1]
               /\ \A j \in 1..Len(nodes[n].Children) :
                      i # j => ChildKeys(n)[i][1] # ChildKeys(n)[j][1]

\* an insertion has failed, and the trie has a node that a split has made:
\* a static node without value that has two static children
C25_Witness ==
    /\ lastErr # ""
    /\ Len(registered) >= 2
    /\ \E n \in 2..Len(nodes) :
           /\ nodes[n].Type = static
           /\ nodes[n].Value.isNil
           /\ Len(nodes[n].Children) = 2
           /\ nodes[n].Indices = <<ChildKeys(n)[1][1], ChildKeys(n)[2][1]>>

----------------------------------------------------------------------------
(* Registrations that fail                                                  *)

\* the routing outcome of a request of path on heap h: which handler is
\* called, the matched pattern it is given, and the redirect or the 404
Outcome(h, path) ==
    LET a == Answer(h, muxes, path)
    IN [kind |-> a.kind, handler |-> a.handler, pattern |-> a.pattern,
        status |-> a.status, location |-> a.location]

\* C26: a registration that fails is not visible. After a call of Handle
\* that failed, every request path has the routing outcome that it had before
\* the call.
C26_FailedRegistrationInvisible ==
    [][\A p \in FailPatterns :
           (Handle(Root, p, Leaf(handleCalls + 1), <<>>) /\ lastErr' # "") =>
               \A path \in RegPaths : Outcome(nodes', path) = Outcome(nodes, path)]_vars

----------------------------------------------------------------------------
(* Lookup on any path                                                       *)

\* the lookup of path in heap h ends without a fault: it has not indexed an
\* empty rest of the path
Total(h, path) == ~Lookup(h, muxes[Root].root, path, <<>>, MTS).fault

\* C27: Lookup is total. In the empty trie and in the trie after every call
\* of Handle, the walk for every string of the bounds (the empty path, paths
\* that do not begin with '/', paths with consecutive slashes) comes to an
\* end and never indexes an empty rest of the path.
C27_LookupTotal ==
    /\ \A path \in Strings : Total(nodes, path)
    /\ [][\A p \in Patterns :
              Handle(Root, p, Leaf(handleCalls + 1), <<>>) =>
                  \A path \in Strings : Total(nodes', path)]_vars

\* a request with consecutive slashes has been routed through a wildcard,
\* which took the empty segment, in a trie of three patterns
C27_Witness ==
    /\ Served
    /\ ~NoEmptySegment(req)
    /\ resp.kind = "handler"
    /\ \E k \in 1..Len(resp.params) : resp.params[k].Value = <<>>
    /\ Len(registered) = MaxHandles
    /\ Total(nodes, req)

----------------------------------------------------------------------------
(* The accessors of Context                                                 *)

\* C28: the two accessors agree. For every request that a handler answers
\* and every name, c.Param(name) is c.Params()[name], the empty string when
\* the name is not bound, also when the name is bound more than once; and
\* Param on a Context without parameter list returns the empty string and
\* does not fault.
C28_AccessorsAgree ==
    /\ (Served /\ resp.kind = "handler") =>
           \A key \in ParamKeys :
               /\ ~ContextParam(ParamsAt(resp.params), key).fault
               /\ ContextParam(ParamsAt(resp.params), key).value
                      = MapGet(ContextParams(ParamsAt(resp.params)), key)
    /\ (Served /\ resp.kind \in {"param", "param panic"}) =>
           resp.kind = "param" /\ resp.path = <<>>

----------------------------------------------------------------------------
(* The redirect                                                             *)

\* the lookup of the request path has returned the redirect value
Redirected == Served /\ resp.kind = "redirect"

\* a registered subtree pattern shorter than the request path matches a
\* prefix of it: its value is the fallback of the walk
HasFallback == \E q \in Registered : IsSubtree(q) /\ Len(q) <= Len(req) /\ MatchesPrefix(q, req)

\* the redirect outcome for path P is returned only if a registered pattern
\* that ends in '/' matches P + "/" in full, and never when P is byte-equal to
\* a registered pattern made of literal bytes
RedirectSound ==
    Redirected =>
        /\ \E q \in Registered : IsSubtree(q) /\ MatchesAs(q, req \o <<"/">>, TRUE)
        /\ ~(req \in Registered /\ IsLiteral(req))

\* when a registered literal pattern is P + "/", no registered pattern
\* matches P in full and a shorter subtree pattern matches a prefix of P, the
\* redirect is returned and not the handler of the shorter pattern
RedirectOverFallback ==
    (/\ Served
     /\ HasPrefix(req, <<"/">>)
     /\ req \o <<"/">> \in Registered
     /\ IsLiteral(req)
     /\ \A q \in Registered : ~MatchesAs(q, req, TRUE)
     /\ HasFallback
     /\ ~MTS)
    => Redirected

\* C30: redirect soundness. Lookup returns the redirect outcome for path P
\* only if a registered pattern that ends in '/' matches P + "/" in full, and
\* never when P is byte-equal to a registered literal pattern; and it returns
\* the redirect even when a shorter subtree pattern that matches a prefix of
\* P would otherwise be the fallback.
C30_RedirectSoundness == RedirectSound /\ RedirectOverFallback

====
